---------------------------- MODULE Spec2Model ----------------------------
(***************************************************************************)
(* Query pipeline of the topic-based RAG chatbot                           *)
(* (topic_based_chatbot.py, topic_based_retriever.py, api.py).             *)
(*                                                                         *)
(* Python strings are sequences of one-character strings, so that strip,   *)
(* split, startswith, replace and len are computed on the characters.      *)
(* An Arabic-script letter is written by its code point ("U+0648").        *)
(* Optional values are None (the empty tuple) or Some(v) (a 1-tuple).      *)
(***************************************************************************)
EXTENDS Integers, Sequences, FiniteSets, TLC

VARIABLES
    question,            \* argument question of process_question_with_topic
    topic_folder,        \* argument topic_folder (None or Some(string))
    index,               \* snapshot of the vector index, in ranking order
    pc,                  \* position of the request in the pipeline
    question_lang,       \* result of detect_question_language (None before)
    translation_result,  \* dict {translations, urdu_query} (None before)
    query_filter,        \* filter argument of the index query (None before)
    embedded_text,       \* text passed to embed_query (None before)
    top_matches,         \* matches the retriever took from the index
    context,             \* assembled context string (None before)
    response,            \* dict returned to the caller (None before)
    outcome,             \* "none", "ANSWERED", "INSUFFICIENT" or "ERROR"
    calls,               \* external calls issued so far, in order
    failures,            \* external calls that raised, with the message
    error_stage,         \* stage whose exception reached the outer handler
    propagated,          \* TRUE iff an exception left the function
    app_state_pinecone_index,  \* api.py: app.state.pinecone_index
    api_requests,        \* api.py: the requests inside get_pinecone_index
    handles_constructed, \* api.py: number of pc.Index(...) objects built
    handles_assigned,    \* api.py: handles stored in app.state, in order
    translation_response,\* output of the translation chain being parsed
    parsed,              \* dict parsed from translation_response (None before)
    retr_function,       \* retriever: the entry point called
    retr_topic_folder,   \* retriever: argument topic_folder of the call
    retr_index,          \* retriever: snapshot of the index, in ranking order
    retr_pc,             \* retriever: position of the call
    retr_documents,      \* retriever: documents found by the search
    retr_context,        \* retriever: context string returned (None before)
    retr_raised,         \* retriever: TRUE iff the call raised
    retr_topic_name,     \* topic name extracted from retr_context
    cls_question,        \* classifier: argument question
    cls_detector,        \* classifier: what detect() does when called
    cls_result,          \* classifier: tag returned or exception (None before)
    stats_index,         \* topic list: (topic_folder, topic_name) of the chunks
    stats_pc,            \* topic list: position of the call
    queries_made,        \* topic list: sampling queries issued so far
    topics_set,          \* topic list: the set topics_set
    topics               \* topic list: the list returned (<<>> before)

\* state of one call of process_question_with_topic
request_vars == <<question, topic_folder, index, pc, question_lang,
                  translation_result, query_filter, embedded_text,
                  top_matches, context, response, outcome, calls, failures,
                  error_stage, propagated>>

\* state of the api process around app.state.pinecone_index
handle_vars == <<app_state_pinecone_index, api_requests, handles_constructed,
                 handles_assigned>>

\* state of one parse of a translation output
parse_vars == <<translation_response, parsed>>

\* state of one call of an entry point of the retriever
retrieve_vars == <<retr_function, retr_topic_folder, retr_index, retr_pc,
                   retr_documents, retr_context, retr_raised,
                   retr_topic_name>>

\* state of one call of detect_question_language
classify_vars == <<cls_question, cls_detector, cls_result>>

\* state of one call of get_available_topics_from_index
topics_vars == <<stats_index, stats_pc, queries_made, topics_set, topics>>

\* state of the library functions called on their own
lib_vars == <<retrieve_vars, classify_vars, topics_vars>>

vars == <<request_vars, handle_vars, parse_vars, lib_vars>>

---------------------------------------------------------------------------
(* Bounds of the model *)

\* longest question drawn
MaxQLen == 3
\* largest number of chunks in the index snapshot of the fair specification
MaxFairIndex == 1
\* largest number of requests the api process receives
MaxRequests == 3
\* largest number of pieces in a translation output
MaxTokens == 4
\* largest number of chunks in the index snapshot
MaxIndex == 2

---------------------------------------------------------------------------
(* Optional values *)

None == <<>>

Some(v) == <<v>>

IsNone(o) == o = <<>>

Val(o) == o[1]

---------------------------------------------------------------------------
(* String literals of the source *)

\* the string 'Urdu:'
LitUrduLabel ==
    <<"U", "r", "d", "u", ":">>

\* the string 'Translation failed: '
LitTranslationFailed ==
    <<"T", "r", "a", "n", "s", "l", "a", "t", "i", "o", "n", " ", "f", "a",
      "i", "l", "e", "d", ":", " ">>

\* the string 'Not needed - query already in target language'
LitNotNeeded ==
    <<"N", "o", "t", " ", "n", "e", "e", "d", "e", "d", " ", "-", " ", "q",
      "u", "e", "r", "y", " ", "a", "l", "r", "e", "a", "d", "y", " ", "i",
      "n", " ", "t", "a", "r", "g", "e", "t", " ", "l", "a", "n", "g", "u",
      "a", "g", "e">>

\* the string 'Failed to create query embedding'
LitEmbedFailed ==
    <<"F", "a", "i", "l", "e", "d", " ", "t", "o", " ", "c", "r", "e", "a",
      "t", "e", " ", "q", "u", "e", "r", "y", " ", "e", "m", "b", "e", "d",
      "d", "i", "n", "g">>

\* the string 'all'
LitAll ==
    <<"a", "l", "l">>

\* the string '[Source '
LitSourceOpen ==
    <<"[", "S", "o", "u", "r", "c", "e", " ">>

\* the string ': '
LitColon ==
    <<":", " ">>

\* the string ' - '
LitDash ==
    <<" ", "-", " ">>

\* the string ' | URL: '
LitUrl ==
    <<" ", "|", " ", "U", "R", "L", ":", " ">>

\* the string ' | Category: '
LitCategory ==
    <<" ", "|", " ", "C", "a", "t", "e", "g", "o", "r", "y", ":", " ">>

\* the string ']'
LitClose ==
    <<"]">>

\* the string '\n'
LitNewline ==
    <<"\n">>

\* the string '\n\n---\n\n'
LitSeparator ==
    <<"\n", "\n", "-", "-", "-", "\n", "\n">>

\* the string 'Unknown'
LitUnknown ==
    <<"U", "n", "k", "n", "o", "w", "n">>

\* the string 'General'
LitGeneral ==
    <<"G", "e", "n", "e", "r", "a", "l">>

\* the string "Sorry, I couldn't find relevant information in the knowledge base for this specific question"
LitNotFoundPrefix ==
    <<"S", "o", "r", "r", "y", ",", " ", "I", " ", "c", "o", "u", "l", "d",
      "n", "'", "t", " ", "f", "i", "n", "d", " ", "r", "e", "l", "e", "v",
      "a", "n", "t", " ", "i", "n", "f", "o", "r", "m", "a", "t", "i", "o",
      "n", " ", "i", "n", " ", "t", "h", "e", " ", "k", "n", "o", "w", "l",
      "e", "d", "g", "e", " ", "b", "a", "s", "e", " ", "f", "o", "r", " ",
      "t", "h", "i", "s", " ", "s", "p", "e", "c", "i", "f", "i", "c", " ",
      "q", "u", "e", "s", "t", "i", "o", "n">>

\* the string ' in the selected topic'
LitInSelectedTopic ==
    <<" ", "i", "n", " ", "t", "h", "e", " ", "s", "e", "l", "e", "c", "t",
      "e", "d", " ", "t", "o", "p", "i", "c">>

\* the string '.'
LitDot ==
    <<".">>

\* the string "Sorry, I couldn't find relevant information in the knowledge base."
LitNoContext ==
    <<"S", "o", "r", "r", "y", ",", " ", "I", " ", "c", "o", "u", "l", "d",
      "n", "'", "t", " ", "f", "i", "n", "d", " ", "r", "e", "l", "e", "v",
      "a", "n", "t", " ", "i", "n", "f", "o", "r", "m", "a", "t", "i", "o",
      "n", " ", "i", "n", " ", "t", "h", "e", " ", "k", "n", "o", "w", "l",
      "e", "d", "g", "e", " ", "b", "a", "s", "e", ".">>

\* the string 'Sorry, an error occurred while generating the answer: '
LitGenerationError ==
    <<"S", "o", "r", "r", "y", ",", " ", "a", "n", " ", "e", "r", "r", "o",
      "r", " ", "o", "c", "c", "u", "r", "r", "e", "d", " ", "w", "h", "i",
      "l", "e", " ", "g", "e", "n", "e", "r", "a", "t", "i", "n", "g", " ",
      "t", "h", "e", " ", "a", "n", "s", "w", "e", "r", ":", " ">>

\* the string 'Sorry, an error occurred: '
LitErrorPrefix ==
    <<"S", "o", "r", "r", "y", ",", " ", "a", "n", " ", "e", "r", "r", "o",
      "r", " ", "o", "c", "c", "u", "r", "r", "e", "d", ":", " ">>

\* the string 'Context too short or empty'
LitWarning ==
    <<"C", "o", "n", "t", "e", "x", "t", " ", "t", "o", "o", " ", "s", "h",
      "o", "r", "t", " ", "o", "r", " ", "e", "m", "p", "t", "y">>

\* the string "'list' object has no attribute 'strip'"
LitListStrip ==
    <<"'", "l", "i", "s", "t", "'", " ", "o", "b", "j", "e", "c", "t", " ",
      "h", "a", "s", " ", "n", "o", " ", "a", "t", "t", "r", "i", "b", "u",
      "t", "e", " ", "'", "s", "t", "r", "i", "p", "'">>


\* the string 'text'
LitTextType ==
    <<"t", "e", "x", "t">>

\* the string 'medium'
LitMedium ==
    <<"m", "e", "d", "i", "u", "m">>

\* the string '08_T'
FolderTaharat ==
    <<"0", "8", "_", "T">>

\* the string '09_Z'
FolderZakat ==
    <<"0", "9", "_", "Z">>

\* the string 'Tah'
NameTaharat ==
    <<"T", "a", "h">>

\* the string 'Zak'
NameZakat ==
    <<"Z", "a", "k">>

\* the string 'wdu'
TextTaharat ==
    <<"w", "d", "u">>

\* the string 'zakat is a duty   '
TextZakat ==
    <<"z", "a", "k", "a", "t", " ", "i", "s", " ", "a", " ", "d", "u", "t",
      "y", " ", " ", " ">>

\* the string '  '
TextBlank ==
    <<" ", " ">>

\* the string 'dua'
TextDua ==
    <<"d", "u", "a">>

\* the string 'quota'
MsgQuota ==
    <<"q", "u", "o", "t", "a">>

\* the string 'internal'
MsgInternal ==
    <<"i", "n", "t", "e", "r", "n", "a", "l">>

\* the string 'timeout'
MsgTimeout ==
    <<"t", "i", "m", "e", "o", "u", "t">>

\* the string 'Urdu: <U+0648>'
OutUrduLine ==
    <<"U", "r", "d", "u", ":", " ", "U+0648">>

\* the string 'Sure\nUrdu: <U+0648> '
OutTwoLines ==
    <<"S", "u", "r", "e", "\n", "U", "r", "d", "u", ":", " ", "U+0648", " ">>

\* the string ' <U+0648>'
OutBare ==
    <<" ", "U+0648">>

\* the string 'Urdu:'
OutLabelOnly ==
    <<"U", "r", "d", "u", ":">>

\* the string ' ': an output of whitespace only
OutBlank ==
    <<" ">>

\* the string ' ans\n'
OutAnswer ==
    <<" ", "a", "n", "s", "\n">>


---------------------------------------------------------------------------
(* Python string operations *)

\* characters str.strip() and the regex class \s treat as whitespace
WhitespaceChars == {" ", "\n", "\t"}

\* str.lstrip(): drop leading whitespace (from the first character that
\* is not whitespace)
LStrip(s) ==
    SubSeq(s,
           CHOOSE i \in 1..(Len(s) + 1) :
               /\ i = Len(s) + 1 \/ s[i] \notin WhitespaceChars
               /\ \A j \in 1..(i - 1) : s[j] \in WhitespaceChars,
           Len(s))

\* str.rstrip(): drop trailing whitespace (up to the last character that
\* is not whitespace)
RStrip(s) ==
    SubSeq(s, 1,
           CHOOSE i \in 0..Len(s) :
               /\ i = 0 \/ s[i] \notin WhitespaceChars
               /\ \A j \in (i + 1)..Len(s) : s[j] \in WhitespaceChars)

\* str.strip(): drop leading and trailing whitespace
Strip(s) ==
    SubSeq(s,
           CHOOSE i \in 1..(Len(s) + 1) :
               /\ i = Len(s) + 1 \/ s[i] \notin WhitespaceChars
               /\ \A j \in 1..(i - 1) : s[j] \in WhitespaceChars,
           CHOOSE i \in 0..Len(s) :
               /\ i = 0 \/ s[i] \notin WhitespaceChars
               /\ \A j \in (i + 1)..Len(s) : s[j] \in WhitespaceChars)

\* str.startswith(prefix)
StartsWith(s, prefix) ==
    /\ Len(prefix) <= Len(s)
    /\ SubSeq(s, 1, Len(prefix)) = prefix

\* str.split('\n'): the pieces between separator characters
RECURSIVE SplitAcc(_, _, _)
SplitAcc(s, sep, cur) ==
    IF s = <<>> THEN <<cur>>
    ELSE IF Head(s) = sep THEN <<cur>> \o SplitAcc(Tail(s), sep, <<>>)
    ELSE SplitAcc(Tail(s), sep, Append(cur, Head(s)))

Split(s, sep) == SplitAcc(s, sep, <<>>)

\* str.replace(old, new): every non-overlapping occurrence, left to right
RECURSIVE Replace(_, _, _)
Replace(s, old, new) ==
    IF s = <<>> THEN <<>>
    ELSE IF StartsWith(s, old)
         THEN new \o Replace(SubSeq(s, Len(old) + 1, Len(s)), old, new)
    ELSE <<Head(s)>> \o Replace(Tail(s), old, new)

\* str.count(sub) for a non-empty sub
RECURSIVE Count(_, _)
Count(s, sub) ==
    IF Len(s) < Len(sub) THEN 0
    ELSE IF StartsWith(s, sub)
         THEN 1 + Count(SubSeq(s, Len(sub) + 1, Len(s)), sub)
    ELSE Count(Tail(s), sub)

\* decimal digits of a natural number, as str(i) and f"{i}" print it
Digit(d) == <<"0", "1", "2", "3", "4", "5", "6", "7", "8", "9">>[d + 1]

RECURSIVE IntToStr(_)
IntToStr(i) ==
    IF i < 10 THEN <<Digit(i)>> ELSE IntToStr(i \div 10) \o <<Digit(i % 10)>>

\* "sep".join(parts)
RECURSIVE Join(_, _)
Join(sep, parts) ==
    IF parts = <<>> THEN <<>>
    ELSE IF Len(parts) = 1 THEN parts[1]
    ELSE parts[1] \o sep \o Join(sep, Tail(parts))

---------------------------------------------------------------------------
(* Program constants *)

\* top_k of search_documents_by_topic
TopK == 3
\* shortest stripped context that is passed to the generator
MinContextLen == 50

---------------------------------------------------------------------------
(* Language classifier *)

\* characters of the ranges U+0600-06FF, U+0750-077F, U+08A0-08FF,
\* U+FB50-FDFF, U+FE70-FEFF that occur in the model: waw and the Arabic
\* question mark
ArabicUrduChars == {"U+0648", "U+061F"}

\* characters the regex class \w matches (letters, digits, underscore)
WordChars ==
    {"a", "b", "c", "d", "e", "f", "g", "h", "i", "j", "k", "l", "m", "n",
     "o", "p", "q", "r", "s", "t", "u", "v", "w", "x", "y", "z",
     "0", "1", "2", "3", "4", "5", "6", "7", "8", "9", "_", "U+0648"}

\* re.findall(r'[\u0600-\u06FF...]', question): the matching characters
ArabicUrduFindall(s) == SelectSeq(s, LAMBDA c : c \in ArabicUrduChars)

\* re.sub(r'[^\w\s]', '', question)
CleanQuestion(s) ==
    SelectSeq(s, LAMBDA c : c \in WordChars \/ c \in WhitespaceChars)

\* what the call detect(clean_question) of langdetect can do: return a
\* language code, raise LangDetectException, or raise another exception
DetectorOutcomes ==
    [kind : {"lang"}, lang : {"ar", "fa", "ur", "en", "fr"}]
    \cup [kind : {"LangDetectException", "OtherException"}, lang : {"-"}]

\* the classifier keeping a third tag for a language the detector names
\* that is neither arabic-script nor english
DetectWithThirdTag(q, d) ==
    IF 10 * Len(ArabicUrduFindall(q)) > 3 * Len(q)
    THEN [raised |-> FALSE, tag |-> "ar", detector_called |-> FALSE,
          message |-> <<>>]
    ELSE IF Len(Strip(CleanQuestion(q))) < 3
    THEN [raised |-> FALSE, tag |-> "en", detector_called |-> FALSE,
          message |-> <<>>]
    ELSE IF d.kind = "OtherException"
    THEN [raised |-> TRUE, tag |-> "-", detector_called |-> TRUE,
          message |-> MsgInternal]
    ELSE IF d.kind = "LangDetectException"
    THEN [raised |-> FALSE, tag |-> "en", detector_called |-> TRUE,
          message |-> <<>>]
    ELSE IF d.lang \in {"ar", "fa", "ur"}
    THEN [raised |-> FALSE, tag |-> "ar", detector_called |-> TRUE,
          message |-> <<>>]
    ELSE [raised |-> FALSE,
          tag |-> IF d.lang = "en" THEN "en" ELSE "other",
          detector_called |-> TRUE, message |-> <<>>]

\* the classifier taking a share of exactly 30% of Arabic/Urdu characters
\* as arabic-script too
DetectAtThreshold(q, d) ==
    IF 10 * Len(ArabicUrduFindall(q)) >= 3 * Len(q)
    THEN [raised |-> FALSE, tag |-> "ar", detector_called |-> FALSE,
          message |-> <<>>]
    ELSE IF Len(Strip(CleanQuestion(q))) < 3
    THEN [raised |-> FALSE, tag |-> "en", detector_called |-> FALSE,
          message |-> <<>>]
    ELSE IF d.kind = "OtherException"
    THEN [raised |-> TRUE, tag |-> "-", detector_called |-> TRUE,
          message |-> MsgInternal]
    ELSE IF d.kind = "LangDetectException"
    THEN [raised |-> FALSE, tag |-> "en", detector_called |-> TRUE,
          message |-> <<>>]
    ELSE IF d.lang \in {"ar", "fa", "ur"}
    THEN [raised |-> FALSE, tag |-> "ar", detector_called |-> TRUE,
          message |-> <<>>]
    ELSE [raised |-> FALSE, tag |-> "en", detector_called |-> TRUE,
          message |-> <<>>]

\* detect_question_language(question) when the detector behaves as d:
\* the tag returned, or raised = TRUE when an exception leaves the function
detect_question_language(q, d) ==
    IF 10 * Len(ArabicUrduFindall(q)) > 3 * Len(q)
    THEN [raised |-> FALSE, tag |-> "ar", detector_called |-> FALSE,
          message |-> <<>>]
    ELSE IF Len(Strip(CleanQuestion(q))) < 3
    THEN [raised |-> FALSE, tag |-> "en", detector_called |-> FALSE,
          message |-> <<>>]
    ELSE IF d.kind = "OtherException"
    THEN [raised |-> TRUE, tag |-> "-", detector_called |-> TRUE,
          message |-> MsgInternal]
    ELSE IF d.kind = "LangDetectException"
    THEN [raised |-> FALSE, tag |-> "en", detector_called |-> TRUE,
          message |-> <<>>]
    ELSE IF d.lang \in {"ar", "fa", "ur"}
    THEN [raised |-> FALSE, tag |-> "ar", detector_called |-> TRUE,
          message |-> <<>>]
    ELSE [raised |-> FALSE, tag |-> "en", detector_called |-> TRUE,
          message |-> <<>>]

\* should_translate_question with the test inverted
ShouldTranslateInverted(tag) == tag # "en"

\* should_translate_question translating every question
ShouldTranslateAlways(tag) == TRUE

\* should_translate_question, given the tag detect_question_language gave
should_translate_question(tag) == tag = "en"

---------------------------------------------------------------------------
(* Query translator *)

\* the loop over translations.split('\n'): the text after the label on the
\* first line that starts with 'Urdu:', or '' when no line does
RECURSIVE FirstUrduLine(_)
FirstUrduLine(lines) ==
    IF lines = <<>> THEN <<>>
    ELSE IF StartsWith(Head(lines), LitUrduLabel)
         THEN Strip(Replace(Head(lines), LitUrduLabel, <<>>))
    ELSE FirstUrduLine(Tail(lines))

\* the try body without the fallback to the whole output
ParseTranslationNoFallback(out) ==
    LET translations == Strip(out)
    IN [translations |-> translations,
        urdu_query |-> FirstUrduLine(Split(translations, "\n"))]

\* the try body of translate_query_for_retrieval for the model output out
ParseTranslation(out) ==
    LET translations == Strip(out)
        labelled == FirstUrduLine(Split(translations, "\n"))
        urdu_query == IF labelled = <<>> THEN Strip(translations)
                      ELSE labelled
    IN [translations |-> translations, urdu_query |-> urdu_query]

\* the except branch dropping the question instead of falling back to it
TranslateExceptNoFallback(q, msg) ==
    [raised |-> FALSE,
     result |-> [translations |-> LitTranslationFailed \o msg,
                 urdu_query |-> <<>>]]

\* the except branch re-raising the failure of the translation chain
TranslateExceptReraises(q, msg) ==
    [raised |-> TRUE,
     result |-> [translations |-> LitTranslationFailed \o msg,
                 urdu_query |-> q]]

\* the except branch of translate_query_for_retrieval: the dict it returns
\* (raised = FALSE: the exception does not leave the function)
TranslateExcept(q, msg) ==
    [raised |-> FALSE,
     result |-> [translations |-> LitTranslationFailed \o msg,
                 urdu_query |-> q]]

\* translation_result of the branch "no translation needed"
NoTranslation(q) == [translations |-> LitNotNeeded, urdu_query |-> q]

---------------------------------------------------------------------------
(* Vector index snapshot *)

\* a metadata value that is a Python str / a Python list of str
PyStr(s) == [type |-> "str", val |-> s]

PyList(l) == [type |-> "list", val |-> l]

\* dict.get(key, default)
MetaGet(meta, key, default) ==
    IF key \in DOMAIN meta THEN meta[key] ELSE default

\* the metadata dict of a match whose metadata is {}
EmptyMeta == [k \in {} |-> <<>>]

\* a chunk of topic 08_T whose attributed block is exactly 50 characters
ChunkTaharat ==
    [id |-> 1, has_metadata |-> TRUE,
     metadata |-> [text |-> PyStr(TextTaharat), source |-> <<"b", "k">>,
                   source_url |-> <<"u">>, category |-> <<"f", "i", "q", "h">>,
                   topic_name |-> NameTaharat,
                   topic_folder |-> FolderTaharat]]

\* a chunk of topic 09_Z whose block is 52 characters, 49 when stripped
ChunkZakat ==
    [id |-> 2, has_metadata |-> TRUE,
     metadata |-> [text |-> PyStr(TextZakat), source |-> <<"b">>,
                   category |-> <<"c">>, topic_name |-> NameZakat,
                   topic_folder |-> FolderZakat]]

\* a chunk of topic 08_T whose text is only whitespace
ChunkBlank ==
    [id |-> 3, has_metadata |-> TRUE,
     metadata |-> [text |-> PyStr(TextBlank), source |-> <<"b">>,
                   category |-> <<"c">>, topic_name |-> NameTaharat,
                   topic_folder |-> FolderTaharat]]

\* a chunk of topic 09_Z whose block is 39 characters
ChunkShort ==
    [id |-> 7, has_metadata |-> TRUE,
     metadata |-> [text |-> PyStr(<<"z", "a", "k", "a", "t">>),
                   source |-> <<"b">>, category |-> <<"c">>,
                   topic_name |-> NameZakat, topic_folder |-> FolderZakat]]

\* a match whose metadata is None
ChunkNoMeta == [id |-> 4, has_metadata |-> FALSE, metadata |-> EmptyMeta]

\* a chunk that carries only its text
ChunkTextOnly ==
    [id |-> 5, has_metadata |-> TRUE, metadata |-> [text |-> PyStr(TextDua)]]

\* a chunk of topic 08_T whose text field is a list of strings
ChunkListText ==
    [id |-> 6, has_metadata |-> TRUE,
     metadata |-> [text |-> PyList(<<TextDua>>), source |-> <<"b">>,
                   category |-> <<"c">>, topic_name |-> NameTaharat,
                   topic_folder |-> FolderTaharat]]

ChunkUniverse ==
    {ChunkTaharat, ChunkZakat, ChunkShort, ChunkBlank, ChunkNoMeta,
     ChunkTextOnly, ChunkListText}

\* index snapshots: the chunks in the order the index ranks them for the
\* query vector, no chunk twice
IndexSnapshots ==
    {s \in UNION {[1..n -> ChunkUniverse] : n \in 0..MaxIndex} :
        \A i, j \in 1..Len(s) : i # j => s[i].id # s[j].id}

\* pinecone_index.query(vector, top_k, include_metadata=True, filter):
\* the first top_k chunks, in ranking order, whose metadata satisfies the
\* equality filter; filter None means unrestricted
IndexQuery(idx, top_k, filter) ==
    LET passes(m) ==
            \/ IsNone(filter)
            \/ /\ m.has_metadata
               /\ "topic_folder" \in DOMAIN m.metadata
               /\ m.metadata["topic_folder"] = Val(filter).topic_folder
        hits == SelectSeq(idx, passes)
    IN SubSeq(hits, 1, IF Len(hits) < top_k THEN Len(hits) ELSE top_k)

---------------------------------------------------------------------------
(* Topic-filtered retriever *)

\* truth value of an optional string: None and '' are falsy
Truthy(o) == ~IsNone(o) /\ Val(o) # <<>>

\* the filter built without regard to the topic: never a restriction
BuildFilterUnrestricted(topic) == None

\* lines 54-57 and 76: the filter argument of the query (filter_dict if
\* filter_dict else None)
BuildFilter(topic) ==
    IF Truthy(topic) /\ Val(topic) # LitAll
    THEN Some([topic_folder |-> Val(topic)])
    ELSE None

\* lines 87-89: the matches kept when the index query raised
QueryExcept(idx) == <<>>

\* lines 107-120: the document built from one match
DocInfo(match) ==
    LET meta == IF match.has_metadata THEN match.metadata ELSE EmptyMeta
    IN [text |-> MetaGet(meta, "text", PyStr(<<>>)),
        source |-> MetaGet(meta, "source", LitUnknown),
        source_url |-> MetaGet(meta, "source_url", <<>>),
        category |-> MetaGet(meta, "category", LitGeneral),
        topic_name |-> MetaGet(meta, "topic_name", LitGeneral),
        topic_folder |-> MetaGet(meta, "topic_folder", <<>>),
        content_type |-> MetaGet(meta, "content_type", LitTextType),
        priority |-> MetaGet(meta, "priority", LitMedium)]

\* lines 94-137: the documents returned for the matches taken.  The topic
\* distribution loop calls match.metadata.get, which raises for a match
\* whose metadata is None; the outer except then returns []
ConvertMatches(matches) ==
    IF \E i \in 1..Len(matches) : ~matches[i].has_metadata
    THEN <<>>
    ELSE [i \in 1..Len(matches) |-> DocInfo(matches[i])]

\* the embedding handler only logging the failure, as the handler of the
\* index statistics does, so that the search goes on to the query
EmbedExceptSwallows(msg) ==
    [raised |-> FALSE, search_goes_on |-> TRUE, documents |-> <<>>]

\* lines 50-52 and 133-137: the embedding call raised; the exception
\* raised in its place is caught by the outer except, which returns []
\* (raised = FALSE: nothing leaves search_documents_by_topic;
\* search_goes_on = FALSE: the raise of line 52 leaves the search body, so
\* the filter is not built and the index is not queried)
EmbedExcept(msg) ==
    [raised |-> FALSE, search_goes_on |-> FALSE, documents |-> <<>>]

---------------------------------------------------------------------------
(* Context assembler *)

\* the attribution header of document doc at position i
Attribution(i, doc) ==
    LitSourceOpen \o IntToStr(i) \o LitColon \o doc.topic_name \o LitDash
    \o doc.source
    \o (IF doc.source_url # <<>> THEN LitUrl \o doc.source_url ELSE <<>>)
    \o LitCategory \o doc.category \o LitClose

\* the blocks of documents i..n, numbered by position in documents
RECURSIVE ContextParts(_, _)
ContextParts(documents, i) ==
    IF i > Len(documents) THEN <<>>
    ELSE IF Strip(documents[i].text.val) # <<>>
         THEN <<Attribution(i, documents[i]) \o LitNewline
                \o documents[i].text.val>>
              \o ContextParts(documents, i + 1)
    ELSE ContextParts(documents, i + 1)

\* prepare_context_from_documents_with_attribution: the context, or
\* raised = TRUE when doc["text"].strip() fails on a text that is no str
prepare_context_from_documents_with_attribution(documents) ==
    IF \E i \in 1..Len(documents) : documents[i].text.type # "str"
    THEN [raised |-> TRUE, message |-> LitListStrip, context |-> <<>>]
    ELSE [raised |-> FALSE, message |-> <<>>,
          context |-> Join(LitSeparator, ContextParts(documents, 1))]

\* extract_topic_name_from_context: group 1, stripped, of the first match
\* of \[Source \d+: ([^-]+) - in the context, or None
IsDigit(c) == c \in {"0", "1", "2", "3", "4", "5", "6", "7", "8", "9"}

\* the match of the pattern that starts at position p, as the pair of the
\* bounds of group 1, or <<>> when the pattern does not match at p
TopicMatchAt(ctx, p) ==
    LET n == Len(ctx)
        d0 == p + Len(LitSourceOpen)
        nondigits == {k \in d0..n : ~IsDigit(ctx[k])}
        d1 == IF nondigits = {} THEN n + 1
              ELSE CHOOSE k \in nondigits : \A l \in nondigits : k <= l
        g == d1 + 2
        dashes == {k \in g..n : ctx[k] = "-"}
        h == IF dashes = {} THEN 0
             ELSE CHOOSE k \in dashes : \A l \in dashes : k <= l
    IN IF /\ p + Len(LitSourceOpen) - 1 <= n
          /\ SubSeq(ctx, p, p + Len(LitSourceOpen) - 1) = LitSourceOpen
          /\ d1 > d0
          /\ d1 + 1 <= n
          /\ SubSeq(ctx, d1, d1 + 1) = LitColon
          /\ h >= g + 2
          /\ ctx[h - 1] = " "
       THEN <<g, h - 2>>
       ELSE <<>>

extract_topic_name_from_context(ctx) ==
    LET starts == {p \in 1..Len(ctx) :
                       ctx[p] = Head(LitSourceOpen)
                       /\ TopicMatchAt(ctx, p) # <<>>}
        first == {p \in starts : \A l \in starts : p <= l}
        groups == {SubSeq(ctx, m[1], m[2]) :
                       m \in {TopicMatchAt(ctx, p) : p \in first}}
    IN IF starts = {} THEN None
       ELSE CHOOSE name \in {Some(Strip(g)) : g \in groups} : TRUE

---------------------------------------------------------------------------
(* Answer generator *)

\* what a call of the text-generation, embedding or index service can do
ExcMessages == {MsgQuota, MsgTimeout}

Returned(v) == [raised |-> FALSE, value |-> v, message |-> <<>>]

Raised(msg) == [raised |-> TRUE, value |-> <<>>, message |-> msg]

\* the entry of failures for a call that raised with message msg
Failure(call, msg) == [call |-> call, message |-> msg]

ServiceFailures == {Raised(msg) : msg \in ExcMessages}

\* outputs of the translation chain
TranslationOutputs ==
    {OutUrduLine, OutTwoLines, OutBare, OutLabelOnly, OutBlank}

TranslationOutcomes ==
    {Returned(out) : out \in TranslationOutputs} \cup ServiceFailures

\* outputs of the QA chain
AnswerOutputs == {OutAnswer}

AnswerOutcomes == {Returned(out) : out \in AnswerOutputs} \cup ServiceFailures

\* describe_index_stats, embed_query and query return nothing the model
\* keeps (the matches come from the snapshot), or raise
PlainOutcomes == {Returned(<<>>), Raised(MsgTimeout)}

\* lines 143-145: the answer returned when the QA chain raised
GenerateExcept(msg) == LitGenerationError \o msg

\* generate_answer_with_dual_question for the QA chain behaving as r:
\* the answer, and whether the chain was invoked
generate_answer_with_dual_question(ctx, r) ==
    IF ctx = <<>>
    THEN [answer |-> LitNoContext, invoked |-> FALSE, failed |-> FALSE]
    ELSE IF r.raised
    THEN [answer |-> GenerateExcept(r.message), invoked |-> TRUE,
          failed |-> TRUE]
    ELSE [answer |-> Strip(r.value), invoked |-> TRUE, failed |-> FALSE]

---------------------------------------------------------------------------
(* Pipeline orchestrator *)

\* the sufficiency check without the length test
InsufficientContextOnlyEmpty(ctx) == ctx = <<>>

\* the sufficiency check applied to non-empty contexts only
InsufficientContextOnlyShort(ctx) ==
    ctx # <<>> /\ Len(Strip(ctx)) < MinContextLen

\* line 217: not context or len(context.strip()) < 50
InsufficientContext(ctx) == ctx = <<>> \/ Len(Strip(ctx)) < MinContextLen

\* the insufficient-context response telling a selected topic by the truth
\* value of topic_folder alone, 'all' included
InsufficientResponseAnyTopic(topic, translation, ctx) ==
    [answer |-> LitNotFoundPrefix
                \o (IF Truthy(topic) THEN LitInSelectedTopic ELSE <<>>)
                \o LitDot,
     topic_name |-> None,
     metadata |-> [translations |-> translation.translations,
                   context_length |-> Len(ctx),
                   topic_filter |-> topic,
                   warning |-> LitWarning]]

\* lines 229-239: the response of the insufficient-context branch
InsufficientResponse(topic, translation, ctx) ==
    [answer |-> LitNotFoundPrefix
                \o (IF Truthy(topic) /\ Val(topic) # LitAll
                    THEN LitInSelectedTopic ELSE <<>>)
                \o LitDot,
     topic_name |-> None,
     metadata |-> [translations |-> translation.translations,
                   context_length |-> Len(ctx),
                   topic_filter |-> topic,
                   warning |-> LitWarning]]

\* lines 267-278: the response after the answer generator returned
AnswerResponse(topic, translation, ctx, answer) ==
    LET topic_name == extract_topic_name_from_context(ctx)
    IN [answer |-> answer,
        topic_name |-> topic_name,
        metadata |-> [translations |-> translation.translations,
                      context_length |-> Len(ctx),
                      topic_filter |-> topic,
                      identified_topic |-> topic_name,
                      sources_count |-> Count(ctx, LitSourceOpen)]]

\* the outer except re-raising instead of returning a response
OuterExceptReraises(topic, msg) ==
    [raised |-> TRUE,
     response |-> [answer |-> LitErrorPrefix \o msg,
                   topic_name |-> None,
                   metadata |-> [translations |-> <<>>,
                                 topic_filter |-> topic]]]

\* lines 280-298: the outer except of process_question_with_topic
\* (raised = FALSE: the handler returns a response, nothing is re-raised)
OuterExcept(topic, msg) ==
    [raised |-> FALSE,
     response |-> [answer |-> LitErrorPrefix \o msg,
                   topic_name |-> None,
                   metadata |-> [translations |-> <<>>,
                                 topic_filter |-> topic,
                                 error |-> TRUE,
                                 error_message |-> msg]]]

\* an exception with message msg raised at stage reaches the outer except
Fail(stage, msg) ==
    LET h == OuterExcept(topic_folder, msg)
    IN /\ pc' = "done"
       /\ outcome' = "ERROR"
       /\ error_stage' = Some(stage)
       /\ propagated' = h.raised
       /\ response' = IF h.raised THEN None ELSE Some(h.response)

\* lines 202-239 after get_relevant_documents_by_topic returned documents:
\* assemble the context, then either return the insufficient-context
\* response or go on to the answer generator
AfterSearch(documents) ==
    LET prepared == prepare_context_from_documents_with_attribution(documents)
    IN IF prepared.raised
       THEN /\ Fail("retrieve", prepared.message)
            /\ UNCHANGED context
       ELSE /\ context' = Some(prepared.context)
            /\ UNCHANGED <<error_stage, propagated>>
            /\ IF InsufficientContext(Val(context'))
               THEN /\ pc' = "done"
                    /\ outcome' = "INSUFFICIENT"
                    /\ response' = Some(InsufficientResponse(topic_folder,
                                       Val(translation_result),
                                       Val(context')))
               ELSE /\ pc' = "generate"
                    /\ UNCHANGED <<outcome, response>>

---------------------------------------------------------------------------
(* Inputs *)

\* characters questions are drawn from
QuestionChars == {"a", "U+0648"}

Questions == UNION {[1..n -> QuestionChars] : n \in 0..MaxQLen}

\* values of the argument topic_folder
TopicFolders ==
    {None, Some(LitAll), Some(<<>>), Some(FolderTaharat), Some(FolderZakat)}

\* no request is inside get_pinecone_index and no handle was built
HandleIdle ==
    /\ app_state_pinecone_index = None
    /\ api_requests = <<>>
    /\ handles_constructed = 0
    /\ handles_assigned = <<>>

\* no translation output is being parsed
ParseIdle ==
    /\ translation_response = <<>>
    /\ parsed = None

\* no entry point of the retriever is running
RetrieveIdle ==
    /\ retr_function = <<>>
    /\ retr_topic_folder = None
    /\ retr_index = <<>>
    /\ retr_pc = "idle"
    /\ retr_documents = <<>>
    /\ retr_context = None
    /\ retr_raised = FALSE
    /\ retr_topic_name = None

\* detect_question_language is not running on its own
ClassifyIdle ==
    /\ cls_question = <<>>
    /\ cls_detector = None
    /\ cls_result = None

\* get_available_topics_from_index is not running
TopicsIdle ==
    /\ stats_index = {}
    /\ stats_pc = "idle"
    /\ queries_made = 0
    /\ topics_set = {}
    /\ topics = <<>>

\* no library function is running on its own
LibIdle == RetrieveIdle /\ ClassifyIdle /\ TopicsIdle

Init ==
    /\ HandleIdle
    /\ ParseIdle
    /\ LibIdle
    /\ question \in Questions
    /\ topic_folder \in TopicFolders
    /\ index \in IndexSnapshots
    /\ pc = "classify"
    /\ question_lang = None
    /\ translation_result = None
    /\ query_filter = None
    /\ embedded_text = None
    /\ top_matches = <<>>
    /\ context = None
    /\ response = None
    /\ outcome = "none"
    /\ calls = <<>>
    /\ failures = <<>>
    /\ error_stage = None
    /\ propagated = FALSE

---------------------------------------------------------------------------
(* Steps of process_question_with_topic, one per external call *)

\* lines 173-188: classify the question; translation is awaited next when
\* the tag is 'en', else the question itself is the retrieval text
Classify ==
    /\ pc = "classify"
    /\ UNCHANGED <<handle_vars, parse_vars, lib_vars>>
    /\ \E d \in DetectorOutcomes :
         LET r == detect_question_language(question, d)
         IN IF r.raised
            THEN /\ Fail("classify", r.message)
                 /\ UNCHANGED <<question_lang, translation_result>>
            ELSE /\ question_lang' = Some(r.tag)
                 /\ UNCHANGED <<response, outcome, error_stage, propagated>>
                 /\ IF should_translate_question(r.tag)
                    THEN /\ pc' = "translate"
                         /\ UNCHANGED translation_result
                    ELSE /\ pc' = "stats"
                         /\ translation_result' = Some(NoTranslation(question))
    /\ UNCHANGED <<question, topic_folder, index, query_filter,
                   embedded_text, top_matches, context, calls, failures>>

\* lines 178-179: the translation chain returns or raises
Translate ==
    /\ pc = "translate"
    /\ UNCHANGED <<handle_vars, parse_vars, lib_vars>>
    /\ \E r \in TranslationOutcomes :
         /\ calls' = Append(calls, "translate")
         /\ IF r.raised
            THEN LET h == TranslateExcept(question, r.message)
                 IN /\ failures' = Append(failures,
                                         Failure("translate", r.message))
                    /\ IF h.raised
                       THEN /\ Fail("translate", r.message)
                            /\ UNCHANGED translation_result
                       ELSE /\ translation_result' = Some(h.result)
                            /\ pc' = "stats"
                            /\ UNCHANGED <<response, outcome, error_stage,
                                           propagated>>
            ELSE /\ translation_result' = Some(ParseTranslation(r.value))
                 /\ pc' = "stats"
                 /\ UNCHANGED <<failures, response, outcome, error_stage,
                                propagated>>
    /\ UNCHANGED <<question, topic_folder, index, question_lang, query_filter,
                   embedded_text, top_matches, context>>

\* retriever lines 26-37: describe_index_stats returns or raises; either
\* way the search goes on
IndexStats ==
    /\ pc = "stats"
    /\ UNCHANGED <<handle_vars, parse_vars, lib_vars>>
    /\ \E r \in PlainOutcomes :
         /\ calls' = Append(calls, "describe_index_stats")
         /\ failures' = IF r.raised
                        THEN Append(failures,
                                    Failure("describe_index_stats", r.message))
                        ELSE failures
    /\ pc' = "embed"
    /\ UNCHANGED <<question, topic_folder, index, question_lang,
                   translation_result, query_filter, embedded_text,
                   top_matches, context, response, outcome, error_stage,
                   propagated>>

\* retriever lines 44-65: embed_query returns, and the filter is built, or
\* raises, and the search returns through its except
Embed ==
    /\ pc = "embed"
    /\ UNCHANGED <<handle_vars, parse_vars, lib_vars>>
    /\ embedded_text' = Some(Val(translation_result).urdu_query)
    /\ \E r \in PlainOutcomes :
         /\ calls' = Append(calls, "embed")
         /\ IF r.raised
            THEN LET h == EmbedExcept(r.message)
                 IN /\ failures' = Append(failures,
                                         Failure("embed", r.message))
                    /\ IF h.raised
                       THEN /\ Fail("retrieve", LitEmbedFailed)
                            /\ UNCHANGED <<context, query_filter>>
                       ELSE IF h.search_goes_on
                       THEN /\ query_filter' = BuildFilter(topic_folder)
                            /\ pc' = "query"
                            /\ UNCHANGED <<context, response, outcome,
                                           error_stage, propagated>>
                       ELSE /\ AfterSearch(h.documents)
                            /\ UNCHANGED query_filter
            ELSE /\ query_filter' = BuildFilter(topic_folder)
                 /\ pc' = "query"
                 /\ UNCHANGED <<failures, context, response, outcome,
                                error_stage, propagated>>
    /\ UNCHANGED <<question, topic_folder, index, question_lang,
                   translation_result, top_matches>>

\* retriever lines 67-137 and chatbot lines 202-239: the index query
\* returns its matches or raises; the documents are built and the context
\* is assembled and checked
Query ==
    /\ pc = "query"
    /\ UNCHANGED <<handle_vars, parse_vars, lib_vars>>
    /\ \E r \in PlainOutcomes :
         /\ calls' = Append(calls, "query")
         /\ failures' = IF r.raised
                        THEN Append(failures, Failure("query", r.message))
                        ELSE failures
         /\ top_matches' = IF r.raised THEN QueryExcept(index)
                           ELSE IndexQuery(index, TopK, query_filter)
         /\ AfterSearch(ConvertMatches(top_matches'))
    /\ UNCHANGED <<question, topic_folder, index, question_lang,
                   translation_result, query_filter, embedded_text>>

\* lines 241-278: the answer generator is awaited and the response built
Generate ==
    /\ pc = "generate"
    /\ UNCHANGED <<handle_vars, parse_vars, lib_vars>>
    /\ \E r \in AnswerOutcomes :
         LET g == generate_answer_with_dual_question(Val(context), r)
         IN /\ calls' = IF g.invoked THEN Append(calls, "generate")
                        ELSE calls
            /\ failures' = IF g.failed
                           THEN Append(failures,
                                       Failure("generate", r.message))
                           ELSE failures
            /\ response' = Some(AnswerResponse(topic_folder,
                                Val(translation_result), Val(context),
                                g.answer))
    /\ pc' = "done"
    /\ outcome' = "ANSWERED"
    /\ UNCHANGED <<question, topic_folder, index, question_lang,
                   translation_result, query_filter, embedded_text,
                   top_matches, context, error_stage, propagated>>

Next == Classify \/ Translate \/ IndexStats \/ Embed \/ Query \/ Generate

Spec == Init /\ [][Next]_vars

\* the requests with a question written in one script, with no topic
\* filter or with one that names a topic, over index snapshots of at most
\* MaxFairIndex chunks
FairInit ==
    /\ Init
    /\ \A i, j \in DOMAIN question : question[i] = question[j]
    /\ topic_folder \in {None, Some(FolderZakat)}
    /\ Len(index) <= MaxFairIndex

\* every awaited call returns or raises, so a request that can take a step
\* takes one
FairSpec == FairInit /\ [][Next]_vars /\ WF_vars(Next)

---------------------------------------------------------------------------
(* Observations on a state of the request *)

Done == pc = "done"

\* the external call named call was issued n times so far
NumCalls(call) == Cardinality({i \in DOMAIN calls : calls[i] = call})

\* the external call named call raised
Failed(call) == \E i \in DOMAIN failures : failures[i].call = call

\* s occurs in t as a contiguous substring
Contains(t, s) ==
    \E i \in 1..(Len(t) - Len(s) + 1) : SubSeq(t, i, i + Len(s) - 1) = s

\* the response carries metadata error: true and an error_message
ErrorFlagged ==
    /\ ~IsNone(response)
    /\ "error" \in DOMAIN Val(response).metadata
    /\ Val(response).metadata.error = TRUE
    /\ "error_message" \in DOMAIN Val(response).metadata

\* the response carries metadata warning
WarningSet ==
    /\ ~IsNone(response)
    /\ "warning" \in DOMAIN Val(response).metadata

\* topic_folder names a topic: not null, not 'all', not the empty string
IsTopicValue(t) == ~IsNone(t) /\ Val(t) # LitAll /\ Val(t) # <<>>

---------------------------------------------------------------------------
(* Claims *)

\* C1: when the embedding service throws, the request ends in the ERROR
\* outcome with metadata error: true and error_message, and not in the
\* INSUFFICIENT outcome with a warning.  (Violated by the code: the except
\* of search_documents_by_topic swallows the failure.)
C1_EmbeddingFailureIsError ==
    (Done /\ Failed("embed")) =>
        /\ outcome = "ERROR"
        /\ ErrorFlagged
        /\ ~WarningSet

\* C2: if the text-generation service raises during answer generation, the
\* answer is a fixed error string (the same whatever the exception), the
\* response metadata carries error: true, and no exception leaves
\* process_question_with_topic.  (Violated by the code: the response has
\* the shape of a successful answer and the answer quotes the exception.)
C2_GenerationFailureFlagged ==
    (Done /\ Failed("generate")) =>
        /\ ~propagated
        /\ ~IsNone(response)
        /\ "error" \in DOMAIN Val(response).metadata
        /\ Val(response).metadata.error = TRUE
        /\ \A msg \in ExcMessages : ~Contains(Val(response).answer, msg)

\* C3: a request whose assembled context has fewer than 50 characters has
\* reached INSUFFICIENT and issued no generation call; a generation call
\* is only ever issued for a context of at least 50 characters.
C3_ShortContextNoGeneration ==
    /\ (~IsNone(context) /\ Len(Val(context)) < MinContextLen) =>
           /\ Done
           /\ outcome = "INSUFFICIENT"
           /\ NumCalls("generate") = 0
    /\ NumCalls("generate") > 0 =>
           /\ ~IsNone(context)
           /\ Len(Val(context)) >= MinContextLen

\* C3 witness: matches were found, but the context they give is non-empty
\* and too short, and the request ended INSUFFICIENT
C3_Witness ==
    /\ Done
    /\ outcome = "INSUFFICIENT"
    /\ top_matches # <<>>
    /\ ~IsNone(context)
    /\ Val(context) # <<>>
    /\ Len(Val(context)) < MinContextLen

\* C4: for a query classified as not english, no translation call is made
\* and the text embedded for retrieval is the raw question, unchanged.
C4_NoTranslationUnlessEnglish ==
    (~IsNone(question_lang) /\ Val(question_lang) # "en") =>
        /\ NumCalls("translate") = 0
        /\ ~IsNone(translation_result) =>
               Val(translation_result).urdu_query = question
        /\ ~IsNone(embedded_text) => Val(embedded_text) = question

\* C4 witness: an arabic-script question went through retrieval as it was
C4_Witness ==
    /\ Done
    /\ question_lang = Some("ar")
    /\ question # <<>>
    /\ embedded_text = Some(question)
    /\ NumCalls("translate") = 0

\* C5 as stated: any exception raised in any pipeline state makes the
\* request end in the terminal ERROR outcome with error: true and
\* error_message, and nothing propagates.  (Violated: the failures of the
\* translation, index, embedding and generation calls are absorbed where
\* they occur and the request goes on.)
C5_AnyExceptionIsError ==
    (failures # <<>> \/ ~IsNone(error_stage)) =>
        /\ Done
        /\ outcome = "ERROR"
        /\ ErrorFlagged
        /\ ~propagated

\* C5 amended: an exception that reaches the except block of
\* process_question_with_topic (one not absorbed inside
\* translate_query_for_retrieval, search_documents_by_topic or
\* generate_answer_with_dual_question) ends the request in the ERROR
\* outcome with error: true and error_message equal to its message; no
\* exception ever leaves process_question_with_topic, and a finished
\* request always has a response.
C5_UncaughtExceptionIsError ==
    /\ ~propagated
    /\ Done => ~IsNone(response)
    /\ ~IsNone(error_stage) =>
           /\ Done
           /\ outcome = "ERROR"
           /\ ErrorFlagged
           /\ Val(response).topic_name = None
    /\ outcome = "ERROR" => ~IsNone(error_stage)

\* C5 witness: an exception raised while the context was assembled ended
\* the request in ERROR
C5_Witness ==
    /\ Done
    /\ error_stage = Some("retrieve")
    /\ outcome = "ERROR"
    /\ Val(response).metadata.error_message = LitListStrip

\* C6: a request issues at most one translation call, only for a query
\* classified english, and at most one generation call: two calls of the
\* text-generation service at most, whatever the outcome.
C6_AtMostTwoLLMCalls ==
    /\ NumCalls("translate") <= 1
    /\ NumCalls("generate") <= 1
    /\ NumCalls("translate") + NumCalls("generate") <= 2
    /\ NumCalls("translate") = 1 => question_lang = Some("en")
    /\ (Done /\ outcome \in {"INSUFFICIENT", "ERROR"}) =>
           NumCalls("generate") = 0

\* C6 witness: a finished request that made both calls
C6_Witness ==
    /\ Done
    /\ NumCalls("translate") = 1
    /\ NumCalls("generate") = 1

\* C7: if the translation call raises, the retrieval text is the raw
\* question exactly and the raw translation output holds the failure
\* message, which is what the response reports as metadata translations.
C7_TranslationFallback ==
    \A i \in DOMAIN failures :
        failures[i].call = "translate" =>
            /\ ~IsNone(translation_result)
            /\ Val(translation_result).urdu_query = question
            /\ Val(translation_result).translations
                   = LitTranslationFailed \o failures[i].message
            /\ ~IsNone(embedded_text) => Val(embedded_text) = question
            /\ (Done /\ outcome # "ERROR") =>
                   Val(response).metadata.translations
                       = LitTranslationFailed \o failures[i].message

\* C7 witness: a non-empty english question whose translation failed, and
\* the finished response reports the failure
C7_Witness ==
    /\ Done
    /\ Failed("translate")
    /\ question # <<>>
    /\ embedded_text = Some(question)
    /\ Contains(Val(response).metadata.translations, MsgQuota)

\* C8: a failure of the translation call never aborts the pipeline: the
\* request goes on to retrieval (the embedding call is made) and no ERROR
\* outcome is caused by the translation stage.
C8_TranslationFailureContinues ==
    Failed("translate") =>
        /\ pc \in {"stats", "embed", "query", "generate", "done"}
        /\ error_stage # Some("translate")
        /\ Done => NumCalls("embed") = 1
        /\ outcome = "ERROR" => error_stage = Some("retrieve")

\* C8 witness: the translation failed and the request still produced an
\* answer from retrieved context
C8_Witness ==
    /\ Done
    /\ Failed("translate")
    /\ outcome = "ANSWERED"
    /\ NumCalls("query") = 1
    /\ NumCalls("generate") = 1

\* C9: when topic_folder names a topic, the index query carries the
\* equality filter {topic_folder = topic_folder} and every match taken has
\* that topic_folder in its metadata; when topic_folder is null or 'all',
\* the query carries no filter.
C9_TopicFilter ==
    NumCalls("query") = 1 =>
        /\ IsTopicValue(topic_folder) =>
               /\ query_filter = Some([topic_folder |-> Val(topic_folder)])
               /\ \A i \in DOMAIN top_matches :
                      /\ top_matches[i].has_metadata
                      /\ "topic_folder" \in DOMAIN top_matches[i].metadata
                      /\ top_matches[i].metadata.topic_folder
                             = Val(topic_folder)
        /\ (IsNone(topic_folder) \/ topic_folder = Some(LitAll)) =>
               query_filter = None

\* C9 witness: a filtered query over an index that also holds a chunk of
\* another topic returned matches
C9_Witness ==
    /\ Done
    /\ topic_folder = Some(FolderTaharat)
    /\ top_matches # <<>>
    /\ \E i \in DOMAIN index :
           /\ index[i].has_metadata
           /\ "topic_folder" \in DOMAIN index[i].metadata
           /\ index[i].metadata.topic_folder = FolderZakat

\* C10: if the index query raises, the retriever returns the empty match
\* sequence and the request ends in the INSUFFICIENT outcome with the
\* warning set, not in the ERROR outcome.
C10_QueryFailureIsInsufficient ==
    Failed("query") =>
        /\ top_matches = <<>>
        /\ Done
        /\ outcome = "INSUFFICIENT"
        /\ WarningSet
        /\ Val(response).metadata.warning = LitWarning
        /\ ~("error" \in DOMAIN Val(response).metadata)

\* C10 witness: the query raised over an index whose best chunk alone
\* would have given enough context, and the request ended INSUFFICIENT
C10_Witness ==
    /\ Done
    /\ Failed("query")
    /\ IsNone(topic_folder)
    /\ index # <<>>
    /\ index[1] = ChunkTextOnly
    /\ outcome = "INSUFFICIENT"

---------------------------------------------------------------------------
(* translate_query_for_retrieval as a function of the translation output *)

\* the call of process_question_with_topic is not running
RequestIdle ==
    /\ question = <<>>
    /\ topic_folder = None
    /\ index = <<>>
    /\ pc = "idle"
    /\ question_lang = None
    /\ translation_result = None
    /\ query_filter = None
    /\ embedded_text = None
    /\ top_matches = <<>>
    /\ context = None
    /\ response = None
    /\ outcome = "none"
    /\ calls = <<>>
    /\ failures = <<>>
    /\ error_stage = None
    /\ propagated = FALSE

\* pieces the translation outputs are made of: the label, a blank, a line
\* break, an urdu letter and a latin letter
ParseTokens == {LitUrduLabel, <<" ">>, LitNewline, <<"U+0648">>, <<"x">>}

\* the string made of the pieces ts, in order
RECURSIVE Concat(_)
Concat(ts) == IF ts = <<>> THEN <<>> ELSE Head(ts) \o Concat(Tail(ts))

\* outputs the translation chain may return
TranslationResponses ==
    {Concat(ts) : ts \in UNION {[1..n -> ParseTokens] : n \in 0..MaxTokens}}

InitParse ==
    /\ RequestIdle
    /\ HandleIdle
    /\ LibIdle
    /\ translation_response \in TranslationResponses
    /\ parsed = None

\* lines 93-114: the translation chain returned translation_response
ParseResponse ==
    /\ IsNone(parsed)
    /\ parsed' = Some(ParseTranslation(translation_response))
    /\ UNCHANGED <<translation_response, request_vars, handle_vars,
                   lib_vars>>

NextParse == ParseResponse

SpecParse == InitParse /\ [][NextParse]_vars

---------------------------------------------------------------------------
(* api.py: get_pinecone_index under concurrent requests.  The dependency of
   /ask and /topics is a plain function, which FastAPI runs on a worker
   thread per request; /health calls it on the event loop. *)

\* the endpoints that obtain the index handle
Endpoints == {"ask", "topics", "health"}

\* pc.Index(index_name) returns a handle, or the try block raises (no api
\* key, import or connection failure)
ConstructOutcomes == {"built", "raised"}

\* a request that entered get_pinecone_index
NewRequest(e) ==
    [endpoint |-> e, at |-> "check", built |-> None, handle |-> None,
     failed |-> FALSE]

\* calls made on the event loop do not interleave with each other: there
\* is no await inside get_pinecone_index
OnEventLoop(r) == api_requests[r].endpoint = "health"

EventLoopBusy ==
    \E s \in DOMAIN api_requests :
        /\ OnEventLoop(s)
        /\ api_requests[s].at \in {"construct", "assign", "return"}

InitHandle ==
    /\ RequestIdle
    /\ ParseIdle
    /\ HandleIdle
    /\ LibIdle

\* a request to one of the endpoints reaches get_pinecone_index
Arrive(e) ==
    /\ Len(api_requests) < MaxRequests
    /\ api_requests' = Append(api_requests, NewRequest(e))
    /\ UNCHANGED <<app_state_pinecone_index, handles_constructed,
                   handles_assigned, request_vars, parse_vars, lib_vars>>

\* line 33: if app.state.pinecone_index is None
CheckHandle(r) ==
    /\ api_requests[r].at = "check"
    /\ OnEventLoop(r) => ~EventLoopBusy
    /\ api_requests' =
           [api_requests EXCEPT ![r].at =
                IF IsNone(app_state_pinecone_index) THEN "construct"
                ELSE "return"]
    /\ UNCHANGED <<app_state_pinecone_index, handles_constructed,
                   handles_assigned, request_vars, parse_vars, lib_vars>>

\* lines 34-47 and 50-51: build the client and the index handle; a failure
\* becomes HTTPException(500) and leaves app.state as it is
ConstructHandle(r) ==
    /\ api_requests[r].at = "construct"
    /\ \E o \in ConstructOutcomes :
           IF o = "built"
           THEN /\ handles_constructed' = handles_constructed + 1
                /\ api_requests' =
                       [api_requests EXCEPT
                            ![r].built = Some(handles_constructed + 1),
                            ![r].at = "assign"]
           ELSE /\ api_requests' =
                       [api_requests EXCEPT ![r].failed = TRUE,
                                            ![r].at = "done"]
                /\ UNCHANGED handles_constructed
    /\ UNCHANGED <<app_state_pinecone_index, handles_assigned, request_vars,
                   parse_vars, lib_vars>>

\* line 47: app.state.pinecone_index = pc.Index(index_name)
AssignHandle(r) ==
    /\ api_requests[r].at = "assign"
    /\ app_state_pinecone_index' = api_requests[r].built
    /\ handles_assigned' = Append(handles_assigned, Val(api_requests[r].built))
    /\ api_requests' = [api_requests EXCEPT ![r].at = "return"]
    /\ UNCHANGED <<handles_constructed, request_vars, parse_vars, lib_vars>>

\* line 53: return app.state.pinecone_index
ReturnHandle(r) ==
    /\ api_requests[r].at = "return"
    /\ api_requests' =
           [api_requests EXCEPT ![r].handle = app_state_pinecone_index,
                                ![r].at = "done"]
    /\ UNCHANGED <<app_state_pinecone_index, handles_constructed,
                   handles_assigned, request_vars, parse_vars, lib_vars>>

NextHandle ==
    \/ \E e \in Endpoints : Arrive(e)
    \/ \E r \in DOMAIN api_requests : CheckHandle(r)
    \/ \E r \in DOMAIN api_requests : ConstructHandle(r)
    \/ \E r \in DOMAIN api_requests : AssignHandle(r)
    \/ \E r \in DOMAIN api_requests : ReturnHandle(r)

SpecHandle == InitHandle /\ [][NextHandle]_vars

---------------------------------------------------------------------------

\* position of an external call in the order the pipeline issues them
CallRank(call) ==
    CASE call = "translate" -> 1
      [] call = "describe_index_stats" -> 2
      [] call = "embed" -> 3
      [] call = "query" -> 4
      [] call = "generate" -> 5

\* a text counts as arabic-script by the classifier's own measure
IsArabicScript(s) == 10 * Len(ArabicUrduFindall(s)) > 3 * Len(s)

\* the messages of the exceptions the model raises
RawExceptionTexts == ExcMessages \cup {MsgInternal, LitListStrip}

\* C11: if the embedding service throws, no vector-index query and no
\* generation call is issued for that request.
C11_EmbeddingFailureStopsCalls ==
    Failed("embed") =>
        /\ NumCalls("query") = 0
        /\ NumCalls("generate") = 0
        /\ top_matches = <<>>
        /\ Done

\* C11 witness: the embedding call raised over an index whose best chunk
\* would have given enough context for an answer
C11_Witness ==
    /\ Done
    /\ Failed("embed")
    /\ IsNone(topic_folder)
    /\ index # <<>>
    /\ index[1] = ChunkTextOnly
    /\ calls[Len(calls)] = "embed"

\* C12: in the INSUFFICIENT outcome the answer is the fixed not-found
\* message, with the suffix ' in the selected topic' exactly when
\* topic_folder names a topic (set and not 'all'), whatever the script of
\* the question; topic_name is null and metadata.warning is set.
C12_InsufficientMessage ==
    outcome = "INSUFFICIENT" =>
        /\ ~IsNone(response)
        /\ Val(response).answer
               = LitNotFoundPrefix
                 \o (IF IsTopicValue(topic_folder) THEN LitInSelectedTopic
                     ELSE <<>>)
                 \o LitDot
        /\ Val(response).topic_name = None
        /\ WarningSet
        /\ Val(response).metadata.warning = LitWarning

\* C12 witness: an arabic-script question under a topic filter ended
\* INSUFFICIENT with the suffix in its (english) answer
C12_Witness ==
    /\ outcome = "INSUFFICIENT"
    /\ question_lang = Some("ar")
    /\ topic_folder = Some(FolderZakat)
    /\ Contains(Val(response).answer, LitInSelectedTopic)

\* C13: for an empty or whitespace-only question the classifier takes the
\* non-english branch, so no translation call is issued.  (Violated by the
\* code: such a question has fewer than 3 cleaned characters and is
\* tagged 'en', so it is translated.)
C13_BlankInputNotTranslated ==
    (Strip(question) = <<>> /\ pc # "classify") =>
        /\ question_lang # Some("en")
        /\ NumCalls("translate") = 0
        /\ pc # "translate"

\* C14 as stated, for a request that reached the retriever: it issued
\* exactly one embedding call and exactly one vector-index query, whatever
\* its outcome.  (Violated: after a failed embedding call no query is
\* issued; a request that ends before the retriever issues neither call.)
C14_ExactlyOneEmbedAndQuery ==
    (Done /\ ~IsNone(embedded_text)) =>
        /\ NumCalls("embed") = 1
        /\ NumCalls("query") = 1

\* C14 amended: a request issues at most one embedding call and at most
\* one vector-index query; a finished request issued exactly one embedding
\* call unless it ended in ERROR at classification, and exactly one query
\* exactly when its embedding call returned.
C14_AtMostOneEmbedAndQuery ==
    /\ NumCalls("embed") <= 1
    /\ NumCalls("query") <= 1
    /\ NumCalls("query") = 1 => (NumCalls("embed") = 1 /\ ~Failed("embed"))
    /\ Done =>
           /\ NumCalls("embed") = 0 <=> error_stage = Some("classify")
           /\ (NumCalls("embed") = 1 /\ ~Failed("embed")) =>
                  NumCalls("query") = 1

\* C14 witness: a finished request with one embedding call and one query
C14_Witness ==
    /\ Done
    /\ outcome = "ANSWERED"
    /\ NumCalls("embed") = 1
    /\ NumCalls("query") = 1

\* C15: the external calls of a request occur in the order translation
\* (if any), embedding, vector query, generation (if any), each after the
\* previous one returned or raised; no call is issued twice (no retries),
\* the query is issued only after the embedding call returned and the
\* generation call only after the query returned.
C15_CallOrder ==
    /\ \A i, j \in DOMAIN calls :
           i < j => CallRank(calls[i]) < CallRank(calls[j])
    /\ NumCalls("query") = 1 => (NumCalls("embed") = 1 /\ ~Failed("embed"))
    /\ NumCalls("generate") = 1 =>
           (NumCalls("query") = 1 /\ ~Failed("query"))
    /\ \A i \in DOMAIN failures :
           NumCalls(failures[i].call) = 1

\* C15 witness: a request that made every call, in order
C15_Witness ==
    calls = <<"translate", "describe_index_stats", "embed", "query",
              "generate">>

\* C16: whenever a request ends in a failure outcome (ERROR, or a failed
\* generation call), the answer is in the script detected for the question
\* and contains no raw exception text.  (Violated by the code: both
\* failure answers are english sentences that end with str(e).)
C16_FailureAnswerLocalized ==
    (Done /\ (outcome = "ERROR" \/ Failed("generate"))) =>
        /\ ~IsNone(response)
        /\ \A msg \in RawExceptionTexts :
               ~Contains(Val(response).answer, msg)
        /\ question_lang = Some("ar") =>
               IsArabicScript(Val(response).answer)

\* C18: the language classifier never raises for an input string: however
\* the detector fails, detect_question_language returns a tag.  (Violated
\* by the code: only LangDetectException is caught.)
C18_ClassifierNeverRaises ==
    /\ error_stage # Some("classify")
    /\ pc # "classify" => ~IsNone(question_lang)

\* lines of the trimmed translation output
ResponseLines == Split(Strip(translation_response), "\n")

\* positions of the lines that start with the label
LabelledLines ==
    {i \in DOMAIN ResponseLines : StartsWith(ResponseLines[i], LitUrduLabel)}

\* the first line that starts with the label
FirstLabelled ==
    ResponseLines[CHOOSE i \in LabelledLines :
                      \A j \in LabelledLines : i <= j]

\* C20 as stated: after a successful translation call the retrieval text is
\* the trimmed text that follows the label on the first line starting with
\* 'Urdu:', and the full trimmed output when no line starts with 'Urdu:'.
\* (Violated: a labelled line with nothing after the label falls back to the
\* full output, and a second 'Urdu:' on the line is removed as well.)
C20_RetrievalTextAfterLabel ==
    ~IsNone(parsed) =>
        Val(parsed).urdu_query
            = IF LabelledLines = {} THEN Strip(translation_response)
              ELSE Strip(SubSeq(FirstLabelled, Len(LitUrduLabel) + 1,
                                Len(FirstLabelled)))

\* C20 amended: the retrieval text is the first line starting with 'Urdu:'
\* with every occurrence of 'Urdu:' removed, trimmed; when no line starts
\* with 'Urdu:' or that text is empty, it is the full trimmed output.  The
\* field translations is the trimmed output.
C20_RetrievalTextLabelsRemoved ==
    ~IsNone(parsed) =>
        /\ Val(parsed).translations = Strip(translation_response)
        /\ Val(parsed).urdu_query
               = IF LabelledLines = {} THEN Strip(translation_response)
                 ELSE LET text == Strip(Replace(FirstLabelled, LitUrduLabel,
                                                <<>>))
                      IN IF text = <<>> THEN Strip(translation_response)
                         ELSE text

\* C20 witness: a parsed output whose labelled line holds the label twice
C20_Witness ==
    /\ translation_response
           = LitUrduLabel \o <<"x">> \o LitUrduLabel \o <<"U+0648">>
    /\ ~IsNone(parsed)
    /\ Val(parsed).urdu_query = <<"x", "U+0648">>

\* C17: under any interleaving of requests to /ask, /topics and /health the
\* handle in app.state.pinecone_index is constructed at most once, is never
\* replaced once set, and every request is given that same handle.
\* (Violated: two requests can both read None at line 33 before either
\* assigns at line 47.)
C17_SingleIndexHandle ==
    /\ handles_constructed <= 1
    /\ Len(handles_assigned) <= 1
    /\ \A r, s \in DOMAIN api_requests :
           (~IsNone(api_requests[r].handle) /\ ~IsNone(api_requests[s].handle))
               => api_requests[r].handle = api_requests[s].handle

\* the request is inside search_documents_by_topic
InSearch == pc \in {"stats", "embed", "query"}

\* C21: for every non-empty question, whatever the translation service
\* returns, the text passed to search_documents_by_topic is non-empty.
\* (Violated: an empty or whitespace-only translation output is trimmed to
\* '' and the fallback to the whole output is '' as well.)
C21_RetrievalTextNonEmpty ==
    (question # <<>> /\ InSearch) =>
        /\ ~IsNone(translation_result)
        /\ Val(translation_result).urdu_query # <<>>

\* the pieces of s between the occurrences of the non-empty string sep
RECURSIVE SplitBy(_, _)
SplitBy(s, sep) ==
    LET starts == {i \in 1..(Len(s) - Len(sep) + 1) :
                       SubSeq(s, i, i + Len(sep) - 1) = sep}
    IN IF starts = {} THEN <<s>>
       ELSE LET i == CHOOSE k \in starts : \A l \in starts : k <= l
            IN <<SubSeq(s, 1, i - 1)>>
               \o SplitBy(SubSeq(s, i + Len(sep), Len(s)), sep)

\* t ends with s
EndsWith(t, s) ==
    Len(s) <= Len(t) /\ SubSeq(t, Len(t) - Len(s) + 1, Len(t)) = s

\* the text field of a match, '' when the match has none
MatchText(m) ==
    IF m.has_metadata /\ "text" \in DOMAIN m.metadata
    THEN m.metadata.text.val
    ELSE <<>>

\* the matches taken from the index whose text is not empty or whitespace
KeptMatches ==
    LET has_text(m) ==
            \/ (m.has_metadata /\ "text" \in DOMAIN m.metadata
                /\ m.metadata.text.type # "str")
            \/ Strip(MatchText(m)) # <<>>
    IN SelectSeq(top_matches, has_text)

\* the attributed blocks of the assembled context
ContextBlocks ==
    IF Val(context) = <<>> THEN <<>> ELSE SplitBy(Val(context), LitSeparator)

\* C23: the assembled context holds exactly one attributed block for each
\* match whose text is not empty/whitespace and none for the others, in
\* the order the index returned the matches; no matches give an empty
\* context.  (Violated through C28: one match without metadata empties the
\* whole document list, so matches with text get no block.)
C23_OneBlockPerMatchInRankOrder ==
    ~IsNone(context) =>
        /\ Len(ContextBlocks) = Len(KeptMatches)
        /\ \A k \in DOMAIN ContextBlocks :
               /\ StartsWith(ContextBlocks[k], LitSourceOpen)
               /\ EndsWith(ContextBlocks[k],
                           LitNewline \o MatchText(KeptMatches[k]))
        /\ top_matches = <<>> => Val(context) = <<>>

\* C24: the attribution headers of an assembled context are numbered
\* 1..n consecutively over the blocks it contains, so every non-empty
\* context contains a '[Source 1: ' header.  (Violated: the number is the
\* position of the document among all documents, blank ones included.)
C24_HeadersNumberedFromOne ==
    ~IsNone(context) =>
        \A k \in DOMAIN ContextBlocks :
            StartsWith(ContextBlocks[k],
                       LitSourceOpen \o IntToStr(k) \o LitColon)

\* C28: a match whose metadata is null becomes a document of default
\* values and the other matches of the query are kept: the retriever
\* returns one document per match, so the context is the one assembled
\* from a document for every match.  (Violated: match.metadata.get at
\* line 97 raises for such a match and the search returns [].)
C28_NullMetadataTolerated ==
    (~IsNone(context) /\ \E i \in DOMAIN top_matches :
                             ~top_matches[i].has_metadata) =>
        Val(context)
            = prepare_context_from_documents_with_attribution(
                  [i \in DOMAIN top_matches |-> DocInfo(top_matches[i])]
              ).context

\* the steps the pipeline may take from one stage to the next
StageOrder ==
    {<<"classify", "translate">>, <<"classify", "stats">>,
     <<"classify", "done">>, <<"translate", "stats">>, <<"stats", "embed">>,
     <<"embed", "query">>, <<"embed", "done">>, <<"query", "generate">>,
     <<"query", "done">>, <<"generate", "done">>}

\* C25: if every external call returns or raises, a call of
\* process_question_with_topic goes through classification, optional
\* translation, retrieval and the context check in that order, and
\* eventually ends in exactly one outcome (ANSWERED, INSUFFICIENT or
\* ERROR) with one response whose keys are answer, topic_name, metadata.
C25_ReachesOneOutcome ==
    /\ <>[]Done
    /\ [](Done <=> outcome \in {"ANSWERED", "INSUFFICIENT", "ERROR"})
    /\ [](Done => /\ ~IsNone(response)
                  /\ DOMAIN Val(response)
                         = {"answer", "topic_name", "metadata"})
    /\ [][/\ pc' # pc => <<pc, pc'>> \in StageOrder
          /\ ~IsNone(response) => response' = response
          /\ outcome # "none" => outcome' = outcome]_vars

\* C25 witness: a request that went through translation and retrieval and
\* ended INSUFFICIENT
C25_Witness ==
    /\ Done
    /\ outcome = "INSUFFICIENT"
    /\ calls = <<"translate", "describe_index_stats", "embed", "query">>
    /\ DOMAIN Val(response) = {"answer", "topic_name", "metadata"}

\* C29: detect_question_language only ever returns 'ar' or 'en', so every
\* question that is not classified arabic-script, a romanized one
\* included, takes the translation step.
C29_TwoTagsOnly ==
    /\ question_lang \in {None, Some("ar"), Some("en")}
    /\ (~IsNone(question_lang) /\ question_lang # Some("ar")) =>
           (pc = "translate" \/ NumCalls("translate") = 1)

\* C29 witness: a question in latin letters, long enough for the detector
\* to be asked, was tagged 'en' and translated
C29_Witness ==
    /\ question = <<"a", "a", "a">>
    /\ question_lang = Some("en")
    /\ NumCalls("translate") = 1
    /\ pc = "stats"

---------------------------------------------------------------------------
(* The entry points of the retriever called on their own, and the topic
   name the orchestrator extracts from the context they return *)

\* largest number of chunks in an index snapshot of the retriever calls
MaxMatches == 2

\* the string 'Al-Q'
NameDashed ==
    <<"A", "l", "-", "Q">>

\* the string '[Source 9: X - y'
TextQuoting ==
    <<"[", "S", "o", "u", "r", "c", "e", " ", "9", ":", " ", "X", " ", "-",
      " ", "y">>

\* a chunk whose topic name holds a hyphen, as the folder name it was
\* cleaned from does
ChunkDashed ==
    [id |-> 8, has_metadata |-> TRUE,
     metadata |-> [text |-> PyStr(TextTaharat), source |-> <<"b", "k">>,
                   source_url |-> <<"u">>, category |-> <<"f", "i", "q", "h">>,
                   topic_name |-> NameDashed,
                   topic_folder |-> FolderTaharat]]

\* a chunk with a hyphenated topic name whose text quotes a source header
ChunkQuoting ==
    [id |-> 9, has_metadata |-> TRUE,
     metadata |-> [text |-> PyStr(TextQuoting), source |-> <<"b", "k">>,
                   source_url |-> <<"u">>, category |-> <<"f", "i", "q", "h">>,
                   topic_name |-> NameDashed,
                   topic_folder |-> FolderZakat]]

RetrieveChunks ==
    {ChunkDashed, ChunkQuoting, ChunkTaharat, ChunkZakat, ChunkBlank,
     ChunkListText}

RetrieveSnapshots ==
    {s \in UNION {[1..n -> RetrieveChunks] : n \in 0..MaxMatches} :
        \A i, j \in 1..Len(s) : i # j => s[i].id # s[j].id}

\* retriever lines 158-162: the parameters of
\* get_relevant_documents_by_topic
ByTopicParameters == <<"pinecone_index", "urdu_query", "topic_folder">>

\* retriever line 292: the arguments the wrapper passes, all positional
WrapperArguments ==
    <<"pinecone_index", "question", "None", "urdu_query", "arabic_query">>

\* a call with positional arguments only raises TypeError when there are
\* more arguments than parameters
CallRaises(parameters, arguments) == Len(arguments) > Len(parameters)

RetrieveFunctions ==
    {"get_relevant_documents", "get_relevant_documents_by_topic"}

InitRetrieve ==
    /\ RequestIdle
    /\ HandleIdle
    /\ ParseIdle
    /\ ClassifyIdle
    /\ TopicsIdle
    /\ retr_function \in RetrieveFunctions
    /\ retr_topic_folder \in TopicFolders
    /\ retr_function = "get_relevant_documents" => retr_topic_folder = None
    /\ retr_index \in RetrieveSnapshots
    /\ retr_pc = "start"
    /\ retr_documents = <<>>
    /\ retr_context = None
    /\ retr_raised = FALSE
    /\ retr_topic_name = None

\* retriever lines 289-292: the wrapper calls
\* get_relevant_documents_by_topic
CallWrapper ==
    /\ retr_pc = "start"
    /\ retr_function = "get_relevant_documents"
    /\ IF CallRaises(ByTopicParameters, WrapperArguments)
       THEN /\ retr_raised' = TRUE
            /\ retr_pc' = "done"
       ELSE /\ retr_raised' = FALSE
            /\ retr_pc' = "search"
    /\ UNCHANGED <<retr_function, retr_topic_folder, retr_index,
                   retr_documents, retr_context, retr_topic_name,
                   request_vars, handle_vars, parse_vars,
                   classify_vars, topics_vars>>

\* retriever lines 158-168: get_relevant_documents_by_topic is called
\* with its three arguments
CallByTopic ==
    /\ retr_pc = "start"
    /\ retr_function = "get_relevant_documents_by_topic"
    /\ retr_pc' = "search"
    /\ UNCHANGED <<retr_function, retr_topic_folder, retr_index,
                   retr_documents, retr_context, retr_raised,
                   retr_topic_name, request_vars, handle_vars, parse_vars,
                   classify_vars, topics_vars>>

\* retriever lines 20-137: search_documents_by_topic; the embedding call
\* or the index query raises, or the query returns its matches
SearchDocuments ==
    /\ retr_pc = "search"
    /\ \E embedded \in PlainOutcomes, queried \in PlainOutcomes :
         retr_documents' =
             IF embedded.raised THEN EmbedExcept(embedded.message).documents
             ELSE IF queried.raised
             THEN ConvertMatches(QueryExcept(retr_index))
             ELSE ConvertMatches(IndexQuery(retr_index, TopK,
                                            BuildFilter(retr_topic_folder)))
    /\ retr_pc' = "assemble"
    /\ UNCHANGED <<retr_function, retr_topic_folder, retr_index,
                   retr_context, retr_raised, retr_topic_name,
                   request_vars, handle_vars, parse_vars,
                   classify_vars, topics_vars>>

\* retriever line 169: the context is assembled and returned
PrepareContext ==
    /\ retr_pc = "assemble"
    /\ \E prepared \in
           {prepare_context_from_documents_with_attribution(retr_documents)} :
         IF prepared.raised
         THEN /\ retr_raised' = TRUE
              /\ retr_pc' = "done"
              /\ UNCHANGED retr_context
         ELSE /\ retr_context' = Some(prepared.context)
              /\ retr_pc' = "respond"
              /\ UNCHANGED retr_raised
    /\ UNCHANGED <<retr_function, retr_topic_folder, retr_index,
                   retr_documents, retr_topic_name, request_vars,
                   handle_vars, parse_vars,
                   classify_vars, topics_vars>>

\* chatbot lines 217-239 and 241-270: the topic_name of the response built
\* from the returned context
RespondTopic ==
    /\ retr_pc = "respond"
    /\ retr_topic_name' =
           IF InsufficientContext(Val(retr_context)) THEN None
           ELSE extract_topic_name_from_context(Val(retr_context))
    /\ retr_pc' = "done"
    /\ UNCHANGED <<retr_function, retr_topic_folder, retr_index,
                   retr_documents, retr_context, retr_raised,
                   request_vars, handle_vars, parse_vars,
                   classify_vars, topics_vars>>

NextRetrieve ==
    CallWrapper \/ CallByTopic \/ SearchDocuments \/ PrepareContext
    \/ RespondTopic

SpecRetrieve == InitRetrieve /\ [][NextRetrieve]_vars

\* the documents that get a block in the context, in order
ShownDocuments ==
    SelectSeq(retr_documents, LAMBDA d : Strip(d.text.val) # <<>>)

\* C22: the topic_name of the response is null or exactly the topic_name
\* shown in the first attribution header of the assembled context
C22_TopicFromFirstHeader ==
    (retr_pc = "done" /\ ~IsNone(retr_context)) =>
        \/ IsNone(retr_topic_name)
        \/ /\ ShownDocuments # <<>>
           /\ retr_topic_name = Some(ShownDocuments[1].topic_name)

\* C27: a call of the wrapper get_relevant_documents does not raise and
\* returns the context of an unrestricted search, as
\* get_relevant_documents_by_topic with topic_folder None does
C27_WrapperSearchesAllTopics ==
    (retr_function = "get_relevant_documents" /\ retr_pc = "done") =>
        /\ ~retr_raised
        /\ retr_context \in
               {Some(prepare_context_from_documents_with_attribution(
                         docs).context) :
                   docs \in {ConvertMatches(IndexQuery(retr_index, TopK,
                                                        None)), <<>>}}

---------------------------------------------------------------------------
(* detect_question_language called on its own *)

\* longest run of Arabic-script letters and of latin letters in a
\* classified question
MaxRun == 7
\* longest run of punctuation marks and of trailing blanks in a classified
\* question
MaxPad == 2

\* the string of n characters c
Repeat(c, n) == [i \in 1..n |-> c]

\* questions made of Arabic-script letters, latin letters, punctuation
\* marks and trailing blanks
ClassifiedQuestions ==
    {Repeat("U+0648", a) \o Repeat("a", l) \o Repeat("?", p)
     \o Repeat(" ", b) :
        a \in 0..MaxRun, l \in 0..MaxRun, p \in 0..MaxPad, b \in 0..MaxPad}

InitClassify ==
    /\ RequestIdle
    /\ HandleIdle
    /\ ParseIdle
    /\ RetrieveIdle
    /\ TopicsIdle
    /\ cls_question \in ClassifiedQuestions
    /\ cls_detector \in {Some(d) : d \in DetectorOutcomes}
    /\ cls_result = None

\* chatbot lines 39-62: detect_question_language(cls_question) runs
ClassifyQuestion ==
    /\ IsNone(cls_result)
    /\ cls_result' =
           Some(detect_question_language(cls_question, Val(cls_detector)))
    /\ UNCHANGED <<cls_question, cls_detector, request_vars, handle_vars,
                   parse_vars, retrieve_vars, topics_vars>>

NextClassify == ClassifyQuestion

SpecClassify == InitClassify /\ [][NextClassify]_vars

\* number of characters of s in the set chars
CountIn(s, chars) == Cardinality({i \in DOMAIN s : s[i] \in chars})

\* s without its punctuation marks
WithoutPunctuation(s) == SelectSeq(s, LAMBDA c : c \notin {"?", "U+061F"})

\* the tag and the use of the detector that the three rules give when the
\* short-text rule measures a text of short_len characters
ClassifiedBy(short_len) ==
    LET d == Val(cls_detector)
        r == Val(cls_result)
    IN IF 10 * CountIn(cls_question, ArabicUrduChars) > 3 * Len(cls_question)
       THEN ~r.raised /\ r.tag = "ar" /\ ~r.detector_called
       ELSE IF short_len < 3
       THEN ~r.raised /\ r.tag = "en" /\ ~r.detector_called
       ELSE d.kind = "lang" =>
                /\ ~r.raised
                /\ r.detector_called
                /\ r.tag = IF d.lang \in {"ar", "fa", "ur"} THEN "ar"
                           ELSE "en"

\* C26 as stated: arabic-script exactly when the Arabic/Urdu characters
\* are strictly more than 30% of all characters; otherwise english without
\* the detector when the punctuation-stripped text has fewer than 3
\* characters; otherwise the detector output ar, fa, ur gives
\* arabic-script and any other output english
C26_ShortByPunctuationStripped ==
    ~IsNone(cls_result) =>
        ClassifiedBy(Len(WithoutPunctuation(cls_question)))

\* C26 amended: as above, with the short-text rule measuring the
\* punctuation-stripped text after its surrounding whitespace is trimmed
C26_ShortByTrimmedText ==
    ~IsNone(cls_result) =>
        ClassifiedBy(Len(Strip(WithoutPunctuation(cls_question))))

\* a question of ten characters with exactly three Arabic-script letters
\* went to the detector, whose output ur gave arabic-script
C26_Witness ==
    /\ ~IsNone(cls_result)
    /\ Len(cls_question) = 10
    /\ CountIn(cls_question, ArabicUrduChars) = 3
    /\ Val(cls_detector).kind = "lang"
    /\ Val(cls_detector).lang = "ur"
    /\ Val(cls_result).detector_called
    /\ Val(cls_result).tag = "ar"

---------------------------------------------------------------------------
(* get_available_topics_from_index *)

\* largest number of distinct (topic_folder, topic_name) pairs among the
\* chunks of the index
MaxTopicChunks == 4
\* retriever lines 184-188: number of dummy vectors queried
NumDummyVectors == 3
\* retriever line 233: defaults are added below this many entries
MinTopics == 5

\* the topic_folder and topic_name values of the chunks; "" stands for a
\* missing or empty field
IndexFolders == {"", "all", "08_Taharat_Cleanliness", "19_Tafsir"}
IndexNames == {"", "Taharat Cleanliness", "Tafsir"}

\* the strings above in the order Python compares them (by code point)
CodepointOrder ==
    <<"", "08_Taharat_Cleanliness", "19_Tafsir", "Tafsir",
      "Taharat Cleanliness", "all">>

StrRank(s) == CHOOSE i \in DOMAIN CodepointOrder : CodepointOrder[i] = s

\* t1 <= t2 for tuples (topic_folder, topic_name)
TupleLeq(t1, t2) ==
    \/ StrRank(t1[1]) < StrRank(t2[1])
    \/ t1[1] = t2[1] /\ StrRank(t1[2]) <= StrRank(t2[2])

\* sorted(s) for a set of tuples
RECURSIVE Sorted(_)
Sorted(s) ==
    IF s = {} THEN <<>>
    ELSE LET least == CHOOSE t \in s : \A u \in s : TupleLeq(t, u)
         IN <<least>> \o Sorted(s \ {least})

\* retriever lines 236-253: default_topics
DefaultTopics ==
    <<<<"03_Hadith_Mawdat_ul_Qurba", "Hadith Mawdat ul Qurba">>,
      <<"04_Kitab_ul_Etiqadia", "Kitab ul Etiqadia">>,
      <<"05_Awrad_Prayers", "Awrad Prayers">>,
      <<"06_Dua_Collection", "Dua Collection">>,
      <<"07_Namaz_Prayers", "Namaz Prayers">>,
      <<"08_Taharat_Cleanliness", "Taharat Cleanliness">>,
      <<"09_Zakat_Khums", "Zakat Khums">>,
      <<"10_Ramzan_Fasting", "Ramzan Fasting">>,
      <<"11_Nikah_Marriage", "Nikah Marriage">>,
      <<"12_Mayat_Death_Rites", "Mayat Death Rites">>,
      <<"13_Ayam_Special_Days", "Ayam Special Days">>,
      <<"14_Kalmay", "Kalmay">>,
      <<"15_Buzurgan_e_Deen", "Buzurgan e Deen">>,
      <<"16_Daily_Wazaif", "Daily Wazaif">>,
      <<"17_Question_Answer", "Question Answer">>,
      <<"18_Additional_Content", "Additional Content">>>>

\* an entry of the topic list (its description is derived from the name)
TopicEntry(t) == [folder_name |-> t[1], display_name |-> t[2]]

AllTopicsEntry == TopicEntry(<<"all", "All Topics">>)

\* retriever lines 200-206: the tuples one sampling query adds
FoundTopics(chunks) == {t \in chunks : t[1] # "" /\ t[2] # ""}

\* retriever lines 215-264: the list built from topics_set
BuildTopicList(found) ==
    LET listed == <<AllTopicsEntry>>
                  \o [i \in 1..Cardinality(found) |->
                          TopicEntry(Sorted(found)[i])]
        existing_folders == {listed[i].folder_name : i \in DOMAIN listed}
        defaults == SelectSeq(DefaultTopics,
                              LAMBDA t : t[1] \notin existing_folders)
    IN IF Len(listed) < MinTopics
       THEN listed \o [i \in DOMAIN defaults |-> TopicEntry(defaults[i])]
       ELSE listed

\* retriever lines 266-287: the list returned by the outer except
FallbackTopics ==
    <<AllTopicsEntry>>
    \o [i \in DOMAIN DefaultTopics |-> TopicEntry(DefaultTopics[i])]

InitTopics ==
    /\ RequestIdle
    /\ HandleIdle
    /\ ParseIdle
    /\ RetrieveIdle
    /\ ClassifyIdle
    /\ stats_index \in {s \in SUBSET (IndexFolders \X IndexNames) :
                           Cardinality(s) <= MaxTopicChunks}
    /\ stats_pc = "stats"
    /\ queries_made = 0
    /\ topics_set = {}
    /\ topics = <<>>

\* retriever lines 177 and 266-287: describe_index_stats returns, or
\* raises and the fallback list is returned
DescribeStats ==
    /\ stats_pc = "stats"
    /\ \E r \in PlainOutcomes :
         IF r.raised
         THEN /\ topics' = FallbackTopics
              /\ stats_pc' = "done"
         ELSE /\ stats_pc' = "query"
              /\ UNCHANGED topics
    /\ UNCHANGED <<stats_index, queries_made, topics_set, request_vars,
                   handle_vars, parse_vars, retrieve_vars, classify_vars>>

\* retriever lines 190-210: one sampling query returns the chunks (the
\* index holds fewer than top_k = 200), or raises and is skipped
SampleQuery ==
    /\ stats_pc = "query"
    /\ \E r \in PlainOutcomes :
         topics_set' = IF r.raised THEN topics_set
                       ELSE topics_set \cup FoundTopics(stats_index)
    /\ queries_made' = queries_made + 1
    /\ stats_pc' = IF queries_made' = NumDummyVectors THEN "build"
                   ELSE "query"
    /\ UNCHANGED <<stats_index, topics, request_vars, handle_vars,
                   parse_vars, retrieve_vars, classify_vars>>

\* retriever lines 212-264: the list is built and returned
ReturnTopics ==
    /\ stats_pc = "build"
    /\ topics' = BuildTopicList(topics_set)
    /\ stats_pc' = "done"
    /\ UNCHANGED <<stats_index, queries_made, topics_set, request_vars,
                   handle_vars, parse_vars, retrieve_vars, classify_vars>>

NextTopics == DescribeStats \/ SampleQuery \/ ReturnTopics

SpecTopics == InitTopics /\ [][NextTopics]_vars

\* C30: the returned topic list has pairwise distinct folder_name values,
\* and "all" is the folder_name of its first entry and of no other
C30_DistinctFoldersAllFirst ==
    stats_pc = "done" =>
        /\ \A i, j \in DOMAIN topics :
               i # j => topics[i].folder_name # topics[j].folder_name
        /\ topics # <<>>
        /\ \A i \in DOMAIN topics : topics[i].folder_name = "all" <=> i = 1

=============================================================================
